---- MODULE Spec2Model ----
(***************************************************************************)
(* A model of zipline's AssetFinder (src/zipline/assets/assets.py): the    *)
(* in-memory sqlite store (equities, futures, asset_router), the          *)
(* identifier-keyed metadata cache, the memoized sid lookups and the       *)
(* storage-backed symbol resolver.                                         *)
(*                                                                         *)
(* Encoding.  Python dicts (kwargs, metadata entries, sqlite rows given    *)
(* back by dict_factory) are functions whose DOMAIN is the set of keys.    *)
(* Python None / SQL NULL in an integer position is the integer None.      *)
(* Timestamps are integers (their .value); one day is TicksPerDay ticks.   *)
(* A call's outcome is Return(v), ReturnNone or Raise(exception name).     *)
(***************************************************************************)
EXTENDS Integers, Sequences, FiniteSets, TLC

VARIABLES
    equities,                       \* rows of table equities, rowid order
    futures,                        \* rows of table futures, rowid order
    asset_router,                   \* rows of table asset_router, rowid order
    commits,                        \* snapshots committed by the last insert_metadata
    metadata_cache,                 \* self.metadata_cache: identifier -> entry
    allow_sid_assignment,           \* self.allow_sid_assignment
    asset_type_by_sid_cache,        \* lru_cache of asset_type_by_sid
    equity_for_id_cache,            \* lru_cache of equity_for_id
    futures_contract_for_id_cache,  \* lru_cache of futures_contract_for_id
    sym_cache,                      \* self.sym_cache: symbol -> list of records
    fuzzy_match,                    \* self.fuzzy_match: (symbol, fuzzy, date) -> outcome
    result                          \* the last call and its outcome

vars == <<equities, futures, asset_router, commits, metadata_cache,
          allow_sid_assignment, asset_type_by_sid_cache, equity_for_id_cache,
          futures_contract_for_id_cache, sym_cache, fuzzy_match, result>>

store == <<equities, futures, asset_router, commits, metadata_cache>>
memos == <<asset_type_by_sid_cache, equity_for_id_cache,
           futures_contract_for_id_cache>>
symbol_caches == <<sym_cache, fuzzy_match>>

(***************************************************************************)
(* Bounds of the model.                                                    *)
(***************************************************************************)
MaxRows == 2        \* insert_metadata is not called once this many typed rows exist
MaxSid == 2         \* sids and integer identifiers range over 0..MaxSid
MaxDate == 3        \* timestamps range over 0..MaxDate ticks
TicksPerDay == 2    \* ticks in one calendar day (normalize_date floors to a day)

None == -1

Sids == 0 .. MaxSid
Dates == 0 .. MaxDate

(***************************************************************************)
(* Python values.                                                          *)
(***************************************************************************)
Return(v) == [kind |-> "return", value |-> v]
ReturnNone == [kind |-> "none"]
Raise(e) == [kind |-> "raise", exc |-> e]
\* an exception constructed with identifier=identifier
RaiseFor(e, identifier) == [kind |-> "raise", exc |-> e, identifier |-> identifier]

IntId(i) == [kind |-> "int", val |-> i]
StrId(s) == [kind |-> "str", val |-> s]

EmptyDict == [k \in {} |-> None]
Get(d, k, default) == IF k \in DOMAIN d THEN d[k] ELSE default
Put(d, k, v) == [x \in DOMAIN d \cup {k} |-> IF x = k THEN v ELSE d[x]]
Pop(d, k) == [x \in DOMAIN d \ {k} |-> d[x]]
\* entry[to] = entry.pop(from), a KeyError leaving the dict as it is
Rename(d, from, to) == IF from \in DOMAIN d THEN Put(Pop(d, from), to, d[from]) ELSE d

ASSET_FIELDS ==
    {"sid", "asset_type", "symbol", "root_symbol", "asset_name", "start_date",
     "end_date", "first_traded", "exchange", "notice_date", "expiration_date",
     "contract_multiplier", "file_name", "company_name", "start_date_nano",
     "end_date_nano"}

TextFields ==
    {"asset_type", "symbol", "root_symbol", "asset_name", "exchange",
     "file_name", "company_name"}

\* pandas.tseries.tools.normalize_date: the timestamp at midnight of its day
normalize_date(d) == d - (d % TicksPerDay)

\* str.lower on the asset_type values the model uses
lower(s) ==
    CASE s = "Equity" -> "equity"
      [] s = "Future" -> "future"
      [] OTHER -> s

(***************************************************************************)
(* zipline.assets._assets: the record types.  A constructor takes the      *)
(* fields it knows from its keyword arguments, gives the others their      *)
(* default and ignores any keyword it does not know.                       *)
(***************************************************************************)
Equity(kw) ==
    [type |-> "Equity",
     sid |-> kw["sid"],
     symbol |-> Get(kw, "symbol", ""),
     asset_name |-> Get(kw, "asset_name", ""),
     start_date |-> Get(kw, "start_date", None),
     end_date |-> Get(kw, "end_date", None),
     first_traded |-> Get(kw, "first_traded", None),
     exchange |-> Get(kw, "exchange", "")]

Future(kw) ==
    [type |-> "Future",
     sid |-> kw["sid"],
     symbol |-> Get(kw, "symbol", ""),
     asset_name |-> Get(kw, "asset_name", ""),
     start_date |-> Get(kw, "start_date", None),
     end_date |-> Get(kw, "end_date", None),
     first_traded |-> Get(kw, "first_traded", None),
     exchange |-> Get(kw, "exchange", ""),
     root_symbol |-> Get(kw, "root_symbol", ""),
     notice_date |-> Get(kw, "notice_date", None),
     expiration_date |-> Get(kw, "expiration_date", None),
     contract_multiplier |-> Get(kw, "contract_multiplier", 1)]

\* Asset.to_dict(): the fields of the record under their names
to_dict(asset) == [k \in DOMAIN asset \ {"type"} |-> asset[k]]

(***************************************************************************)
(* zipline.errors: the exception classes each derive from ZiplineError     *)
(* directly, so that except SymbolNotFound catches SymbolNotFound only.    *)
(***************************************************************************)
IsSymbolNotFound(out) == out = Raise("SymbolNotFound")

(***************************************************************************)
(* insert_metadata: the normalization pipeline, as functions of the entry. *)
(***************************************************************************)
NaN == -2

\* Rejected without the test for NaN
Rejected_NaNAccepted(k, v) == IF k \in TextFields THEN v = "" ELSE v = None

\* the values insert_metadata does not accept: None, '' and NaN
Rejected(k, v) == IF k \in TextFields THEN v = "" ELSE v \in {None, NaN}

Accepted(kwargs) ==
    {k \in DOMAIN kwargs : k \in ASSET_FIELDS /\ ~Rejected(k, kwargs[k])}

\* entry = self.metadata_cache.get(identifier, {})
CachedEntry(identifier) ==
    IF identifier \in DOMAIN metadata_cache THEN metadata_cache[identifier]
    ELSE EmptyDict

\* the loop over kwargs.items()
FilterInto(entry, kwargs) ==
    [k \in DOMAIN entry \cup Accepted(kwargs) |->
        IF k \in Accepted(kwargs) THEN kwargs[k] ELSE entry[k]]

\* hasattr(identifier, '__int__')
HasInt(identifier) == identifier.kind = "int"

SidDeclared(entry, identifier) ==
    "sid" \in DOMAIN entry \/ HasInt(identifier) \/ allow_sid_assignment

\* AssignSid counting from one, not from len(self.metadata_cache)
AssignSid_FromOne(entry, identifier) ==
    IF "sid" \in DOMAIN entry THEN entry
    ELSE IF HasInt(identifier) THEN Put(entry, "sid", identifier.val)
    ELSE Put(entry, "sid", Cardinality(DOMAIN metadata_cache) + 1)

AssignSid(entry, identifier) ==
    IF "sid" \in DOMAIN entry THEN entry
    ELSE IF HasInt(identifier) THEN Put(entry, "sid", identifier.val)
    ELSE Put(entry, "sid", Cardinality(DOMAIN metadata_cache))

DefaultSymbol(entry, identifier) ==
    IF "symbol" \notin DOMAIN entry /\ identifier.kind = "str"
    THEN Put(entry, "symbol", identifier.val)
    ELSE entry

CompanyName(entry) ==
    IF "company_name" \notin DOMAIN entry THEN entry
    ELSE IF "asset_name" \in DOMAIN entry THEN Pop(entry, "company_name")
    ELSE Put(Pop(entry, "company_name"), "asset_name", entry["company_name"])

\* the four pops of *_nano; pd.Timestamp(value, tz='UTC') keeps the value
PopNanos(entry) ==
    Rename(Rename(Rename(Rename(entry,
        "start_date_nano", "start_date"),
        "end_date_nano", "end_date"),
        "notice_date_nano", "notice_date"),
        "expiration_date_nano", "expiration_date")

\* the entry as it stands when asset_type is popped
Normalized(entry, identifier) ==
    PopNanos(CompanyName(DefaultSymbol(
        Rename(AssignSid(entry, identifier), "file_name", "symbol"),
        identifier)))

\* x.value if x else None: a Timestamp is never falsy
ValueOrNone(x) == x

EquityRow(asset) ==
    [sid |-> asset.sid,
     symbol |-> asset.symbol,
     asset_name |-> asset.asset_name,
     start_date_nano |-> ValueOrNone(asset.start_date),
     end_date_nano |-> ValueOrNone(asset.end_date),
     first_traded_nano |-> ValueOrNone(asset.first_traded),
     exchange |-> asset.exchange]

FutureRow(asset) ==
    [sid |-> asset.sid,
     symbol |-> asset.symbol,
     asset_name |-> asset.asset_name,
     start_date_nano |-> ValueOrNone(asset.start_date),
     end_date_nano |-> ValueOrNone(asset.end_date),
     first_traded_nano |-> ValueOrNone(asset.first_traded),
     exchange |-> asset.exchange,
     root_symbol |-> asset.root_symbol,
     notice_date_nano |-> ValueOrNone(asset.notice_date),
     expiration_date_nano |-> ValueOrNone(asset.expiration_date),
     contract_multiplier |-> asset.contract_multiplier]

RouterRow(sid, asset_type) == [sid |-> sid, asset_type |-> asset_type]

Snapshot(e, f, r) == [equities |-> e, futures |-> f, asset_router |-> r]

\* the entry of a call that raised stays in the cache only when it was there:
\* the dict the cache holds is the one the call mutated
MutatedInPlace(identifier, entry) ==
    IF identifier \in DOMAIN metadata_cache
    THEN [metadata_cache EXCEPT ![identifier] = entry]
    ELSE metadata_cache

Called(op, args, out) == [op |-> op, args |-> args, out |-> out]

InsertEquity(identifier, entry) ==
    LET asset == Equity(entry)
        e == Append(equities, EquityRow(asset))
        r == Append(asset_router, RouterRow(asset.sid, "equity"))
    IN  /\ equities' = e
        /\ asset_router' = r
        /\ commits' = <<Snapshot(e, futures, r)>>
        /\ UNCHANGED futures

\* InsertFuture without the insert into asset_router
InsertFuture_NoRouterRow(identifier, entry) ==
    LET asset == Future(entry)
        f == Append(futures, FutureRow(asset))
    IN  /\ futures' = f
        /\ commits' = <<Snapshot(equities, f, asset_router),
                        Snapshot(equities, f, asset_router)>>
        /\ UNCHANGED <<equities, asset_router>>

InsertFuture(identifier, entry) ==
    LET asset == Future(entry)
        f == Append(futures, FutureRow(asset))
        r == Append(asset_router, RouterRow(asset.sid, "future"))
    IN  /\ futures' = f
        /\ asset_router' = r
        /\ commits' = <<Snapshot(equities, f, asset_router),
                        Snapshot(equities, f, r)>>
        /\ UNCHANGED equities

\* the sid the call works with, None when it has none to work with
InsertSid(identifier, kwargs) ==
    LET filtered == FilterInto(CachedEntry(identifier), kwargs)
    IN  IF SidDeclared(filtered, identifier)
        THEN Normalized(filtered, identifier)["sid"]
        ELSE None

\* how a call insert_metadata(identifier, **kwargs) ends
InsertOutcome(identifier, kwargs) ==
    LET filtered == FilterInto(CachedEntry(identifier), kwargs)
        asset_type == Get(Normalized(filtered, identifier), "asset_type", "equity")
    IN  IF ~SidDeclared(filtered, identifier)
        THEN RaiseFor("SidAssignmentError", identifier)
        ELSE IF lower(asset_type) \in {"equity", "future"} THEN ReturnNone
        ELSE Raise("InvalidAssetType")

\* what a call insert_metadata(identifier, **kwargs) writes
InsertWrites(identifier, kwargs) ==
    LET filtered == FilterInto(CachedEntry(identifier), kwargs)
        normal == Normalized(filtered, identifier)
        asset_type == Get(normal, "asset_type", "equity")
        entry == Pop(normal, "asset_type")
    IN  IF ~SidDeclared(filtered, identifier)
        THEN /\ metadata_cache' = MutatedInPlace(identifier, filtered)
             /\ UNCHANGED <<equities, futures, asset_router, commits>>
        ELSE IF lower(asset_type) = "equity"
        THEN /\ InsertEquity(identifier, entry)
             /\ metadata_cache' = Put(metadata_cache, identifier, entry)
        ELSE IF lower(asset_type) = "future"
        THEN /\ InsertFuture(identifier, entry)
             /\ metadata_cache' = Put(metadata_cache, identifier, entry)
        ELSE /\ metadata_cache' = MutatedInPlace(identifier, entry)
             /\ UNCHANGED <<equities, futures, asset_router, commits>>

insert_metadata(identifier, kwargs) ==
    /\ Len(equities) + Len(futures) < MaxRows
    /\ InsertWrites(identifier, kwargs)
    /\ result' = Called("insert_metadata",
                        [identifier |-> identifier,
                         kwargs |-> kwargs,
                         sid |-> InsertSid(identifier, kwargs)],
                        InsertOutcome(identifier, kwargs))
    /\ UNCHANGED <<allow_sid_assignment, memos, symbol_caches>>

\* clear_metadata
clear_metadata ==
    /\ metadata_cache' = EmptyDict
    /\ result' = Called("clear_metadata", EmptyDict, ReturnNone)
    /\ UNCHANGED <<equities, futures, asset_router, commits,
                   allow_sid_assignment, memos, symbol_caches>>

(***************************************************************************)
(* The memoized lookups by sid.  An lru_cache keeps the first outcome of   *)
(* each argument, None included, and is never invalidated.                 *)
(***************************************************************************)
Min(S) == CHOOSE x \in S : \A y \in S : x <= y

\* where sid=?: the indices of the rows of a table that hold the sid
RowsOfSid(table, sid) == {i \in 1 .. Len(table) : table[i].sid = sid}

\* cursor.fetchone() over the selected rows: the first in rowid order, or None
FetchOne(table, rows) ==
    IF rows = {} THEN ReturnNone ELSE Return(table[Min(rows)])

Memoized(cache, key, computed) ==
    IF key \in DOMAIN cache THEN cache[key] ELSE computed

\* if data['x_nano']: data['x'] = pd.Timestamp(data['x_nano']); del data['x_nano']
NanoToDate(data, nano, date) ==
    IF data[nano] # None /\ data[nano] # 0
    THEN Put(Pop(data, nano), date, data[nano])
    ELSE Pop(data, nano)

AssetTypeQuery(sid) ==
    LET data == FetchOne(asset_router, RowsOfSid(asset_router, sid))
    IN  IF data = ReturnNone THEN ReturnNone
        ELSE Return(data.value.asset_type)

EquityQuery(sid) ==
    LET data == FetchOne(equities, RowsOfSid(equities, sid))
    IN  IF data = ReturnNone THEN ReturnNone
        ELSE Return(Equity(
                NanoToDate(NanoToDate(data.value,
                    "start_date_nano", "start_date"),
                    "end_date_nano", "end_date")))

FutureQuery(sid) ==
    LET data == FetchOne(futures, RowsOfSid(futures, sid))
    IN  IF data = ReturnNone THEN ReturnNone
        ELSE Return(Future(
                NanoToDate(NanoToDate(NanoToDate(NanoToDate(NanoToDate(
                    data.value,
                    "start_date_nano", "start_date"),
                    "end_date_nano", "end_date"),
                    "notice_date_nano", "notice_date"),
                    "first_traded_nano", "first_traded"),
                    "expiration_date_nano", "expiration_date")))

\* what a call of the decorated method returns
AssetTypeBySid(sid) == Memoized(asset_type_by_sid_cache, sid, AssetTypeQuery(sid))
EquityForId(sid) == Memoized(equity_for_id_cache, sid, EquityQuery(sid))
FuturesContractForId(sid) ==
    Memoized(futures_contract_for_id_cache, sid, FutureQuery(sid))

asset_type_by_sid(sid) ==
    /\ asset_type_by_sid_cache' =
            Put(asset_type_by_sid_cache, sid, AssetTypeBySid(sid))
    /\ result' = Called("asset_type_by_sid", [sid |-> sid], AssetTypeBySid(sid))
    /\ UNCHANGED <<store, symbol_caches, allow_sid_assignment, equity_for_id_cache,
                   futures_contract_for_id_cache>>

equity_for_id(sid) ==
    /\ equity_for_id_cache' = Put(equity_for_id_cache, sid, EquityForId(sid))
    /\ result' = Called("equity_for_id", [sid |-> sid], EquityForId(sid))
    /\ UNCHANGED <<store, symbol_caches, allow_sid_assignment, asset_type_by_sid_cache,
                   futures_contract_for_id_cache>>

futures_contract_for_id(contract_id) ==
    /\ futures_contract_for_id_cache' =
            Put(futures_contract_for_id_cache, contract_id,
                FuturesContractForId(contract_id))
    /\ result' = Called("futures_contract_for_id", [sid |-> contract_id],
                        FuturesContractForId(contract_id))
    /\ UNCHANGED <<store, symbol_caches, allow_sid_assignment, asset_type_by_sid_cache,
                   equity_for_id_cache>>

\* retrieve_asset(sid) with an integer sid and default_none=False
retrieve_asset(sid) ==
    LET asset_type == AssetTypeBySid(sid)
        asset == IF asset_type = Return("equity") THEN EquityForId(sid)
                 ELSE IF asset_type = Return("future") THEN FuturesContractForId(sid)
                 ELSE ReturnNone
    IN  /\ asset_type_by_sid_cache' = Put(asset_type_by_sid_cache, sid, asset_type)
        /\ equity_for_id_cache' =
                IF asset_type = Return("equity")
                THEN Put(equity_for_id_cache, sid, asset)
                ELSE equity_for_id_cache
        /\ futures_contract_for_id_cache' =
                IF asset_type = Return("future")
                THEN Put(futures_contract_for_id_cache, sid, asset)
                ELSE futures_contract_for_id_cache
        /\ result' = Called("retrieve_asset", [sid |-> sid],
                            IF asset # ReturnNone THEN asset
                            ELSE Raise("SidNotFound"))
        /\ UNCHANGED <<store, symbol_caches, allow_sid_assignment>>

(***************************************************************************)
(* lookup_symbol_resolve_multiple: the storage-backed resolver.  A         *)
(* comparison with a NULL column is not true, and NULL sorts below every   *)
(* value; rows that tie on the ORDER BY key come in no defined order.      *)
(***************************************************************************)
\* where symbol=?
WithSymbol(symbol) == {i \in 1 .. Len(equities) : equities[i].symbol = symbol}

\* where symbol=? and start_date_nano<=? and end_date_nano>=?
ExactCandidates(symbol, as_of) ==
    {i \in 1 .. Len(equities) :
        /\ equities[i].symbol = symbol
        /\ equities[i].start_date_nano # None
        /\ equities[i].start_date_nano <= as_of
        /\ equities[i].end_date_nano # None
        /\ equities[i].end_date_nano >= as_of}

\* StartedCandidates without its start_date_nano<=? condition
StartedCandidates_AnyStart(symbol, as_of) ==
    {i \in 1 .. Len(equities) : equities[i].symbol = symbol}

\* where symbol=? and start_date_nano<=?
StartedCandidates(symbol, as_of) ==
    {i \in 1 .. Len(equities) :
        /\ equities[i].symbol = symbol
        /\ equities[i].start_date_nano # None
        /\ equities[i].start_date_nano <= as_of}

\* order by end_date_nano desc limit 1: the rows that may come first
LatestEnd(rows) ==
    {i \in rows : \A j \in rows :
        equities[j].end_date_nano <= equities[i].end_date_nano}

\* the outcomes of the branch taken when as_of_date is given.  The statement
\* of the multiple-candidates branch, "... end_date_nano desc" + "limit 1",
\* is not SQL: execute() raises sqlite3.OperationalError
ResolveAsOf(symbol, as_of_date) ==
    LET as_of == normalize_date(as_of_date)
        candidates == ExactCandidates(symbol, as_of)
        started == StartedCandidates(symbol, as_of)
    IN  IF Cardinality(candidates) = 1
        THEN {[sid |-> equities[i].sid] : i \in candidates}
        ELSE IF Cardinality(candidates) = 0
        THEN IF started = {} THEN {Raise("SymbolNotFound")}
             ELSE {[sid |-> equities[i].sid] : i \in LatestEnd(started)}
        ELSE {Raise("OperationalError")}

\* the branch taken without as_of_date: fetchone() and len(data)
ResolveNoDate(symbol) ==
    LET data == FetchOne(equities, WithSymbol(symbol))
    IN  IF data = ReturnNone THEN {Raise("TypeError")}
        ELSE {[sid |-> data.value.sid]}

Resolve(symbol, as_of_date) ==
    IF as_of_date # None THEN ResolveAsOf(symbol, as_of_date)
    ELSE ResolveNoDate(symbol)

lookup_symbol_resolve_multiple(symbol, as_of_date) ==
    \E found \in Resolve(symbol, as_of_date) :
        LET args == [symbol |-> symbol, as_of_date |-> as_of_date]
        IN  /\ UNCHANGED <<store, symbol_caches, allow_sid_assignment, asset_type_by_sid_cache,
                           futures_contract_for_id_cache>>
            /\ IF "sid" \in DOMAIN found
               THEN /\ equity_for_id_cache' =
                            Put(equity_for_id_cache, found.sid, EquityForId(found.sid))
                    /\ result' = Called("lookup_symbol_resolve_multiple", args,
                                        EquityForId(found.sid))
               ELSE /\ result' = Called("lookup_symbol_resolve_multiple", args, found)
                    /\ UNCHANGED equity_for_id_cache

(***************************************************************************)
(* _lookup_symbol_in_infos: the resolver over a list of records.  Ordering *)
(* None against a Timestamp depends on the interpreter: a TypeError, or    *)
(* None below every Timestamp.                                             *)
(***************************************************************************)
\* sorted(seq, key=...), a stable sort: the indices of the keys in sorted order
StableOrder(keys) ==
    LET n == Len(keys)
        rank(i) == 1 + Cardinality({j \in 1 .. n :
                        keys[j] < keys[i] \/ (keys[j] = keys[i] /\ j < i)})
    IN  [k \in 1 .. n |-> CHOOSE i \in 1 .. n : rank(i) = k]

\* sorted(infos, key=operator.attrgetter('end_date'))
SortedByEndDate(infos) ==
    LET order == StableOrder([i \in 1 .. Len(infos) |-> infos[i].end_date])
    IN  [k \in 1 .. Len(infos) |-> infos[order[k]]]

\* sorted(candidates, key=lambda x: (x.start_date, x.end_date))
SortedByStartEnd(candidates) ==
    LET order == StableOrder([i \in 1 .. Len(candidates) |->
                    (candidates[i].start_date + 2) * (MaxDate + 3)
                        + (candidates[i].end_date + 2)])
    IN  [k \in 1 .. Len(candidates) |-> candidates[order[k]]]

\* (i.start_date is None or i.start_date <= as_of_date)
\* and (i.end_date is None or as_of_date <= i.end_date)
InfoTrades(i, as_of_date) ==
    /\ i.start_date = None \/ i.start_date <= as_of_date
    /\ i.end_date = None \/ as_of_date <= i.end_date

\* whether the call orders a None against another value
OrdersNone(infos, as_of_date) ==
    LET n == Len(infos)
        trading == {i \in 1 .. n : InfoTrades(infos[i], as_of_date)}
    IN  \/ n >= 2 /\ \E i \in 1 .. n : infos[i].end_date = None
        \/ trading = {} /\ \E i \in 1 .. n : infos[i].end_date = None
        \/ \E i, j \in trading :
            \/ /\ infos[i].start_date # infos[j].start_date
               /\ None \in {infos[i].start_date, infos[j].start_date}
            \/ /\ infos[i].start_date = infos[j].start_date
               /\ infos[i].end_date # infos[j].end_date
               /\ None \in {infos[i].end_date, infos[j].end_date}

InfoMatch(info, date_match) == [info |-> info, date_match |-> date_match]

\* the outcomes of _lookup_symbol_in_infos(infos, as_of_date)
LookupSymbolInInfos(infos, as_of_date) ==
    LET sorted == SortedByEndDate(infos)
        Trades(i) == InfoTrades(i, as_of_date)
        Ended(i) == i.end_date < as_of_date
        candidates == SelectSeq(sorted, Trades)
        ended == SelectSeq(sorted, Ended)
        best == SortedByStartEnd(candidates)
        match ==
            IF Len(candidates) = 1 THEN InfoMatch(Return(candidates[1]), TRUE)
            ELSE IF Len(candidates) = 0
            THEN IF ended # <<>>
                 THEN InfoMatch(Return(ended[Len(ended)]), FALSE)
                 ELSE InfoMatch(ReturnNone, FALSE)
            ELSE InfoMatch(Return(best[Len(best)]), TRUE)
    IN  {Return(match)} \cup
        (IF OrdersNone(infos, as_of_date) THEN {Raise("TypeError")} ELSE {})

lookup_symbol_in_infos(infos, as_of_date) ==
    \E out \in LookupSymbolInInfos(infos, as_of_date) :
        /\ result' = Called("_lookup_symbol_in_infos",
                            [infos |-> infos, as_of_date |-> as_of_date], out)
        /\ UNCHANGED <<store, symbol_caches, allow_sid_assignment, memos>>

(***************************************************************************)
(* lookup_symbol.  fuzzy is '' when no fuzzy character is given (None and  *)
(* '' are both falsy).                                                     *)
(***************************************************************************)
\* str.upper on the symbols the model uses
upper(s) ==
    CASE s = "abc" -> "ABC"
      [] OTHER -> s

\* chain((symbol,), (symbol[:i] + fuzzy + symbol[i:]
\*                   for i in range(len(symbol) - 1, 0, -1)))
FuzzySymbols(symbol, fuzzy) ==
    <<symbol>> \o
    [k \in 1 .. Len(symbol) - 1 |->
        LET i == Len(symbol) - k
        IN  SubSeq(symbol, 1, i) \o fuzzy \o SubSeq(symbol, i + 1, Len(symbol))]

\* the loop over the fuzzy symbols: the outcomes of the call on a cache miss
RECURSIVE FuzzyScan(_, _)
FuzzyScan(fuzzy_symbols, as_of_date) ==
    IF fuzzy_symbols = <<>> THEN {ReturnNone}
    ELSE LET infos == Get(sym_cache, Head(fuzzy_symbols), <<>>)
             rest == FuzzyScan(Tail(fuzzy_symbols), as_of_date)
         IN  IF infos = <<>> THEN rest
             ELSE UNION {IF out.kind = "raise" THEN {out}
                         ELSE IF out.value.info # ReturnNone /\ out.value.date_match
                         THEN {out.value.info}
                         ELSE rest :
                            out \in LookupSymbolInInfos(infos, as_of_date)}

\* FuzzyMatchAfter without the assignment of the for loop's else clause
FuzzyMatchAfter_MissNotRecorded(key, out) ==
    IF out.kind = "return" THEN Put(fuzzy_match, key, out)
    ELSE fuzzy_match

\* self.fuzzy_match after a cache miss: the info found, or None; a call that
\* raises assigns nothing
FuzzyMatchAfter(key, out) ==
    IF out.kind = "raise" THEN fuzzy_match
    ELSE Put(fuzzy_match, key, out)

lookup_symbol(symbol, as_of_date, fuzzy) ==
    LET sym == upper(symbol)
        date == normalize_date(as_of_date)
        key == <<sym, fuzzy, date>>
        args == [symbol |-> symbol, as_of_date |-> as_of_date, fuzzy |-> fuzzy]
    IN  IF fuzzy = ""
        THEN \E found \in Resolve(sym, date) :
                /\ UNCHANGED <<store, symbol_caches, allow_sid_assignment,
                               asset_type_by_sid_cache,
                               futures_contract_for_id_cache>>
                /\ IF "sid" \in DOMAIN found
                   THEN /\ equity_for_id_cache' =
                                Put(equity_for_id_cache, found.sid,
                                    EquityForId(found.sid))
                        /\ result' = Called("lookup_symbol", args,
                                            EquityForId(found.sid))
                   ELSE /\ result' = Called("lookup_symbol", args,
                                IF IsSymbolNotFound(found)
                                THEN ReturnNone ELSE found)
                        /\ UNCHANGED equity_for_id_cache
        ELSE IF key \in DOMAIN fuzzy_match
        THEN /\ result' = Called("lookup_symbol", args, fuzzy_match[key])
             /\ UNCHANGED <<store, symbol_caches, allow_sid_assignment, memos>>
        ELSE \E out \in FuzzyScan(FuzzySymbols(sym, fuzzy), date) :
                /\ fuzzy_match' = FuzzyMatchAfter(key, out)
                /\ result' = Called("lookup_symbol", args, out)
                /\ UNCHANGED <<store, sym_cache, allow_sid_assignment, memos>>

(***************************************************************************)
(* lookup_future_chain.  Rows that tie on expiration_date_nano come in no  *)
(* defined order.                                                          *)
(***************************************************************************)
\* where root_symbol=:root_symbol and expiration_date_nano >= :as_of_date
\* and start_date_nano <= :knowledge_date
ChainRows(root_symbol, as_of_date, knowledge_date) ==
    {i \in 1 .. Len(futures) :
        /\ futures[i].root_symbol = root_symbol
        /\ futures[i].expiration_date_nano # None
        /\ futures[i].expiration_date_nano >= as_of_date
        /\ futures[i].start_date_nano # None
        /\ futures[i].start_date_nano <= knowledge_date}

\* order by expiration_date_nano asc: the orders fetchall() may give the rows
ByExpiration(rows) ==
    {order \in [1 .. Cardinality(rows) -> rows] :
        /\ \A k, l \in DOMAIN order : order[k] = order[l] => k = l
        /\ \A k, l \in DOMAIN order :
            k < l => futures[order[k]].expiration_date_nano
                        <= futures[order[l]].expiration_date_nano}

lookup_future_chain(root_symbol, as_of_date, knowledge_date) ==
    \E order \in ByExpiration(ChainRows(root_symbol, as_of_date, knowledge_date)) :
        LET sids == [k \in DOMAIN order |-> futures[order[k]].sid]
            called == {sids[k] : k \in DOMAIN sids}
        IN  /\ futures_contract_for_id_cache' =
                    [sid \in DOMAIN futures_contract_for_id_cache \cup called |->
                        FuturesContractForId(sid)]
            /\ result' = Called("lookup_future_chain",
                            [root_symbol |-> root_symbol,
                             as_of_date |-> as_of_date,
                             knowledge_date |-> knowledge_date],
                            Return([k \in DOMAIN sids |->
                                        FuturesContractForId(sids[k])]))
            /\ UNCHANGED <<store, symbol_caches, allow_sid_assignment,
                           asset_type_by_sid_cache, equity_for_id_cache>>

(***************************************************************************)
(* lookup_generic.  An object to convert is an Asset, an integer or a      *)
(* string; the calls made for one object see the lru_caches as the calls   *)
(* made for the objects before it left them.                               *)
(***************************************************************************)
AssetObj(asset) == [kind |-> "asset", val |-> asset]

Memos(types, equity, future) == [types |-> types, equity |-> equity, future |-> future]

\* self.retrieve_asset(sid) on the lru_caches memo: the caches after and the outcome
RetrieveIn(memo, sid) ==
    LET asset_type == Memoized(memo.types, sid, AssetTypeQuery(sid))
        asset == IF asset_type = Return("equity")
                 THEN Memoized(memo.equity, sid, EquityQuery(sid))
                 ELSE IF asset_type = Return("future")
                 THEN Memoized(memo.future, sid, FutureQuery(sid))
                 ELSE ReturnNone
    IN  [memo |-> Memos(Put(memo.types, sid, asset_type),
                        IF asset_type = Return("equity")
                        THEN Put(memo.equity, sid, asset) ELSE memo.equity,
                        IF asset_type = Return("future")
                        THEN Put(memo.future, sid, asset) ELSE memo.future),
         out |-> IF asset # ReturnNone THEN asset ELSE Raise("SidNotFound")]

\* self.lookup_symbol_resolve_multiple(symbol, as_of_date) on the lru_caches memo
ResolveIn(memo, symbol, as_of_date) ==
    {IF "sid" \in DOMAIN found
     THEN [memo |-> Memos(memo.types,
                          Put(memo.equity, found.sid,
                              Memoized(memo.equity, found.sid, EquityQuery(found.sid))),
                          memo.future),
           out |-> Memoized(memo.equity, found.sid, EquityQuery(found.sid))]
     ELSE [memo |-> memo, out |-> found] :
        found \in Resolve(symbol, as_of_date)}

\* the lists and caches as a call of _lookup_generic_scalar leaves them;
\* raised holds the exception that leaves the call, if any
Converting(memo, matches, missing, raised) ==
    [memo |-> memo, matches |-> matches, missing |-> missing, raised |-> raised]

\* _lookup_generic_scalar(asset_convertible, as_of_date, matches, missing)
LookupGenericScalar(st, asset_convertible, as_of_date) ==
    IF asset_convertible.kind = "asset"
    THEN {Converting(st.memo, Append(st.matches, Return(asset_convertible.val)),
                     st.missing, st.raised)}
    ELSE IF asset_convertible.kind = "int"
    THEN LET r == RetrieveIn(st.memo, asset_convertible.val)
         IN  {IF IsSymbolNotFound(r.out)
              THEN Converting(r.memo, st.matches,
                              Append(st.missing, asset_convertible), st.raised)
              ELSE IF r.out.kind = "raise"
              THEN Converting(r.memo, st.matches, st.missing, r.out)
              ELSE Converting(r.memo, Append(st.matches, r.out), st.missing,
                              st.raised)}
    ELSE IF asset_convertible.kind = "str"
    THEN {IF IsSymbolNotFound(r.out)
          THEN Converting(r.memo, st.matches, Append(st.missing, asset_convertible),
                          st.raised)
          ELSE IF r.out.kind = "raise"
          THEN Converting(r.memo, st.matches, st.missing, r.out)
          ELSE Converting(r.memo, Append(st.matches, r.out), st.missing, st.raised) :
            r \in ResolveIn(st.memo, asset_convertible.val, as_of_date)}
    ELSE {Converting(st.memo, st.matches, st.missing, Raise("NotAssetConvertible"))}

\* for obj in iterator: self._lookup_generic_scalar(obj, as_of_date, matches, missing)
RECURSIVE LookupGenericEach(_, _, _)
LookupGenericEach(st, objs, as_of_date) ==
    IF objs = <<>> \/ st.raised # ReturnNone THEN {st}
    ELSE UNION {LookupGenericEach(next, Tail(objs), as_of_date) :
                    next \in LookupGenericScalar(st, Head(objs), as_of_date)}

\* what lookup_generic gives back, from the lists its calls filled
LookupGenericOutcome(st, scalar, objs) ==
    IF st.raised # ReturnNone THEN st.raised
    ELSE IF ~scalar
    THEN Return([matches |-> st.matches, missing |-> st.missing])
    ELSE IF st.matches # <<>>
    THEN Return([matches |-> st.matches[1], missing |-> st.missing])
    ELSE IF objs[1].kind = "int" THEN Raise("SidNotFound")
    ELSE Raise("SymbolNotFound")

\* lookup_generic(asset_convertible_or_iterable, as_of_date): scalar says
\* whether the argument is an AssetConvertible, objs is the argument itself
\* or, of an iterable, its elements
lookup_generic(scalar, objs, as_of_date) ==
    \E st \in LookupGenericEach(
                Converting(Memos(asset_type_by_sid_cache, equity_for_id_cache,
                                 futures_contract_for_id_cache),
                           <<>>, <<>>, ReturnNone),
                objs, as_of_date) :
        /\ asset_type_by_sid_cache' = st.memo.types
        /\ equity_for_id_cache' = st.memo.equity
        /\ futures_contract_for_id_cache' = st.memo.future
        /\ result' = Called("lookup_generic",
                            [scalar |-> scalar, objs |-> objs,
                             as_of_date |-> as_of_date],
                            LookupGenericOutcome(st, scalar, objs))
        /\ UNCHANGED <<store, symbol_caches, allow_sid_assignment>>

(***************************************************************************)
(* _insert_metadata_readable, of a readable that gives one row.  Whether   *)
(* a string 'None' read from a stream is the object of the literal 'None'  *)
(* (row_value is not 'None') depends on the interpreter.                   *)
(***************************************************************************)
\* bool(row_value): None, 0 and '' are falsy, a NaN is not
Truthy(k, v) == IF k \in TextFields THEN v # "" ELSE v \notin {None, 0}

\* the string 'None', which the identity test may or may not single out
Placeholder(k, v) == k \in TextFields /\ v = "None"

\* the metadata_dict the loop over ASSET_FIELDS may build from a row
MetadataDicts(row) ==
    LET kept == {k \in DOMAIN row \cap ASSET_FIELDS :
                    Truthy(k, row[k]) /\ ~Placeholder(k, row[k])}
        unsure == {k \in DOMAIN row \cap ASSET_FIELDS : Placeholder(k, row[k])}
    IN  {[k \in kept \cup also |-> row[k]] : also \in SUBSET unsure}

\* the identifier located in metadata_dict; the model calls this only when
\* there is one
Located(metadata_dict) ==
    IF "sid" \in DOMAIN metadata_dict THEN IntId(metadata_dict["sid"])
    ELSE StrId(metadata_dict["symbol"])

insert_metadata_readable(row) ==
    \E metadata_dict \in MetadataDicts(row) :
        /\ UNCHANGED <<allow_sid_assignment, memos, symbol_caches>>
        /\ IF DOMAIN metadata_dict \cap {"sid", "symbol"} = {}
           THEN /\ result' = Called("_insert_metadata_readable", [row |-> row],
                                    Raise("ConsumeAssetMetaDataError"))
                /\ UNCHANGED store
           ELSE /\ Len(equities) + Len(futures) < MaxRows
                /\ InsertWrites(Located(metadata_dict), metadata_dict)
                /\ result' = Called("_insert_metadata_readable", [row |-> row],
                                InsertOutcome(Located(metadata_dict), metadata_dict))

(***************************************************************************)
(* map_identifier_index_to_sids, of an index of integers or of an index of *)
(* one symbol or Asset.  The class defines no populate_cache: the call at  *)
(* line 568 raises AttributeError.                                         *)
(***************************************************************************)
\* an object that is no AssetConvertible
OtherObj == [kind |-> "other"]

\* consume_identifiers: the insert_metadata call made for an identifier
ConsumeCall(identifier) ==
    IF identifier.kind = "asset"
    THEN [identifier |-> IntId(identifier.val.sid),
          kwargs |-> Put(to_dict(identifier.val), "asset_type", identifier.val.type)]
    ELSE [identifier |-> identifier, kwargs |-> EmptyDict]

map_identifier_index_to_sids(index, as_of_date) ==
    LET first_identifier == index[1]
        args == [index |-> index, as_of_date |-> as_of_date]
        call == ConsumeCall(first_identifier)
        consumed == InsertOutcome(call.identifier, call.kwargs)
    IN  /\ UNCHANGED <<allow_sid_assignment, memos, symbol_caches>>
        /\ IF first_identifier.kind = "other"
           THEN /\ result' = Called("map_identifier_index_to_sids", args,
                                    Raise("MapAssetIdentifierIndexError"))
                /\ UNCHANGED store
           ELSE IF first_identifier.kind = "int"
           THEN /\ result' = Called("map_identifier_index_to_sids", args,
                                    Return(index))
                /\ UNCHANGED store
           ELSE /\ Len(index) = 1
                /\ Len(equities) + Len(futures) < MaxRows
                /\ InsertWrites(call.identifier, call.kwargs)
                /\ result' = Called("map_identifier_index_to_sids", args,
                                IF consumed.kind = "raise" THEN consumed
                                ELSE Raise("AttributeError"))

(***************************************************************************)
(* The state after AssetFinder() and the calls a client makes.             *)
(***************************************************************************)
Merge(a, b) == [k \in DOMAIN a \cup DOMAIN b |-> IF k \in DOMAIN b THEN b[k] ELSE a[k]]
Opt(k, values) == {EmptyDict} \cup {[x \in {k} |-> v] : v \in values}

Init ==
    /\ equities = <<>>
    /\ futures = <<>>
    /\ asset_router = <<>>
    /\ commits = <<>>
    /\ metadata_cache = EmptyDict
    /\ allow_sid_assignment \in BOOLEAN
    /\ asset_type_by_sid_cache = EmptyDict
    /\ equity_for_id_cache = EmptyDict
    /\ futures_contract_for_id_cache = EmptyDict
    /\ sym_cache = EmptyDict
    /\ fuzzy_match = EmptyDict
    /\ result = Called("__init__", EmptyDict, ReturnNone)

\* Spec: ingestion under integer and string identifiers
Identifiers == {IntId(i) : i \in 1 .. MaxSid} \cup {StrId("A")}
IngestKwargs ==
    {Merge(Merge(a, b), c) :
        a \in Opt("asset_type", {"future", "bond"}),
        b \in Opt("start_date", {0, 1}),
        c \in Opt("first_traded", {1})}

Ingest ==
    \E identifier \in Identifiers, kwargs \in IngestKwargs :
        insert_metadata(identifier, kwargs)
ClearMetadata == clear_metadata

Next ==
    \/ Ingest
    \/ ClearMetadata

Spec == Init /\ [][Next]_vars

\* SpecLookup: the lookups by sid, interleaved with ingestion under integer
\* identifiers
LookupKwargs ==
    {Merge(a, b) :
        a \in Opt("asset_type", {"future"}),
        b \in {EmptyDict, [start_date |-> 0, first_traded |-> 1],
               [start_date |-> 1, expiration_date |-> 2]}}

IngestBySid ==
    \E sid \in 1 .. MaxSid, kwargs \in LookupKwargs :
        insert_metadata(IntId(sid), kwargs)
AssetType == \E sid \in 1 .. MaxSid : asset_type_by_sid(sid)
EquityById == \E sid \in 1 .. MaxSid : equity_for_id(sid)
FutureById == \E sid \in 1 .. MaxSid : futures_contract_for_id(sid)
Retrieve == \E sid \in 1 .. MaxSid : retrieve_asset(sid)

InitLookup == Init /\ allow_sid_assignment

NextLookup ==
    \/ IngestBySid
    \/ AssetType
    \/ EquityById
    \/ FutureById
    \/ Retrieve

SpecLookup == InitLookup /\ [][NextLookup]_vars

\* SpecResolve: equities ingested with a symbol and a validity window, and the
\* symbol resolved with and without an as_of_date
Symbols == {"A", "B"}
ResolveKwargs ==
    {Merge(Merge(a, b), c) :
        a \in {[symbol |-> x] : x \in Symbols},
        b \in Opt("start_date", Dates),
        c \in Opt("end_date", Dates)}

IngestEquity ==
    \E sid \in 1 .. MaxSid, kwargs \in ResolveKwargs :
        insert_metadata(IntId(sid), kwargs)
LookupAsOf ==
    \E symbol \in Symbols, as_of_date \in Dates :
        lookup_symbol_resolve_multiple(symbol, as_of_date)
LookupNoDate ==
    \E symbol \in Symbols : lookup_symbol_resolve_multiple(symbol, None)

NextResolve ==
    \/ IngestEquity
    \/ LookupAsOf
    \/ LookupNoDate

SpecResolve == InitLookup /\ [][NextResolve]_vars

\* SpecInfos: equities ingested under one symbol, and the symbol resolved as
\* of a date by both resolvers, the in-memory one over the records ingested
InfoSymbol == "A"
InfoKwargs ==
    {Merge(Merge([symbol |-> InfoSymbol], b), c) :
        b \in Opt("start_date", Dates),
        c \in Opt("end_date", Dates)}

\* the records of the equities under a symbol, in ingestion order
Infos(symbol) ==
    LET rows == SelectSeq(equities, LAMBDA row : row.symbol = symbol)
    IN  [k \in 1 .. Len(rows) |->
            Equity([sid |-> rows[k].sid,
                    symbol |-> rows[k].symbol,
                    asset_name |-> rows[k].asset_name,
                    start_date |-> rows[k].start_date_nano,
                    end_date |-> rows[k].end_date_nano,
                    first_traded |-> rows[k].first_traded_nano,
                    exchange |-> rows[k].exchange])]

IngestInfo ==
    \E sid \in 1 .. MaxSid, kwargs \in InfoKwargs :
        insert_metadata(IntId(sid), kwargs)
LookupInStore ==
    \E as_of_date \in Dates :
        lookup_symbol_resolve_multiple(InfoSymbol, as_of_date)
LookupInInfos ==
    \E as_of_date \in Dates :
        lookup_symbol_in_infos(Infos(InfoSymbol), as_of_date)

NextInfos ==
    \/ IngestInfo
    \/ LookupInStore
    \/ LookupInInfos

SpecInfos == InitLookup /\ [][NextInfos]_vars

\* SpecFuzzy: equities ingested under the fuzzy variants of a symbol, and
\* the symbol looked up with and without a fuzzy character
FuzzyChar == "_"
FuzzyQueries == {"ABC", "abc"}
FuzzyStored == {"ABC", "AB_C"}
FuzzyKwargs ==
    {[symbol |-> x, start_date |-> 0, end_date |-> MaxDate] : x \in FuzzyStored}

IngestFuzzy ==
    \E sid \in 1 .. MaxSid, kwargs \in FuzzyKwargs :
        insert_metadata(IntId(sid), kwargs)
LookupSymbol ==
    \E symbol \in FuzzyQueries, as_of_date \in Dates, fuzzy \in {"", FuzzyChar} :
        lookup_symbol(symbol, as_of_date, fuzzy)

NextFuzzy ==
    \/ IngestFuzzy
    \/ LookupSymbol
    \/ ClearMetadata

SpecFuzzy == InitLookup /\ [][NextFuzzy]_vars

\* SpecChain: futures ingested under a root symbol, looked up by sid and as
\* a chain
RootSymbols == {"ES", "CL"}
ChainKwargs ==
    {Merge(Merge([asset_type |-> "future", root_symbol |-> "ES"], b), c) :
        b \in Opt("start_date", {1, 2}),
        c \in Opt("expiration_date", 1 .. MaxDate)}

IngestFuture ==
    \E sid \in 1 .. MaxSid, kwargs \in ChainKwargs :
        insert_metadata(IntId(sid), kwargs)
LookupChain ==
    \E root_symbol \in RootSymbols, as_of_date \in 1 .. MaxDate,
       knowledge_date \in {1, 2} :
        lookup_future_chain(root_symbol, as_of_date, knowledge_date)

NextChain ==
    \/ IngestFuture
    \/ FutureById
    \/ LookupChain

SpecChain == InitLookup /\ [][NextChain]_vars

\* SpecAssign: entries without a sid ingested under symbols into a fresh
\* AssetFinder, with sid assignment allowed or not
SymbolIdentifiers == {StrId(x) : x \in {"A", "B", "C"}}
AssignKwargs ==
    {Merge(a, b) :
        a \in Opt("asset_type", {"future"}),
        b \in Opt("exchange", {"NYSE", "CME"})}

IngestBySymbol ==
    \E identifier \in SymbolIdentifiers, kwargs \in AssignKwargs :
        insert_metadata(identifier, kwargs)

NextAssign == IngestBySymbol

SpecAssign == Init /\ [][NextAssign]_vars

\* SpecGeneric: equities ingested under a symbol, and handles, sids and
\* symbols converted one at a time and in batches
GenericKwargs == {[symbol |-> x, start_date |-> 0, end_date |-> MaxDate] : x \in {"A"}}
Convertibles ==
    {IntId(i) : i \in 1 .. MaxSid} \cup {StrId("A"), StrId("B")}
        \cup {AssetObj(Equity([sid |-> MaxSid]))}
Batches == {<<a, b>> : a, b \in Convertibles}

IngestGeneric ==
    \E sid \in 1 .. MaxSid, kwargs \in GenericKwargs :
        insert_metadata(IntId(sid), kwargs)
LookupScalar ==
    \E obj \in Convertibles, as_of_date \in {None, 1} :
        lookup_generic(TRUE, <<obj>>, as_of_date)
LookupBatch ==
    \E objs \in Batches, as_of_date \in {None, 1} :
        lookup_generic(FALSE, objs, as_of_date)

NextGeneric ==
    \/ IngestGeneric
    \/ LookupScalar
    \/ LookupBatch

SpecGeneric == InitLookup /\ [][NextGeneric]_vars

\* SpecFilter: identifiers ingested again and again, with values
\* insert_metadata does not accept and a field it does not know
FilterIdentifiers == {IntId(1), StrId("A")}
FilterKwargs ==
    {Merge(Merge(Merge(a, b), c), d) :
        a \in Opt("symbol", {"", "X"}),
        b \in Opt("file_name", {"F"}),
        c \in Opt("start_date", {None, NaN, 1}),
        d \in Opt("comment", {7})}

IngestFiltered ==
    \E identifier \in FilterIdentifiers, kwargs \in FilterKwargs :
        insert_metadata(identifier, kwargs)

NextFilter == IngestFiltered

SpecFilter == InitLookup /\ [][NextFilter]_vars

\* SpecDispatch: entries ingested with and without an asset_type
DispatchKwargs ==
    {Merge(a, b) :
        a \in Opt("asset_type", {"equity", "future", "Future", "bond"}),
        b \in Opt("exchange", {"NYSE"})}

IngestTyped ==
    \E sid \in 1 .. MaxSid, kwargs \in DispatchKwargs :
        insert_metadata(IntId(sid), kwargs)

NextDispatch == IngestTyped

SpecDispatch == InitLookup /\ [][NextDispatch]_vars

\* SpecRaw: raw entries, with file_name and start_date_nano, ingested by
\* insert_metadata and from a readable, and the equities looked up by sid
RawKwargs ==
    {Merge(Merge(a, b), c) :
        a \in Opt("symbol", {"S"}),
        b \in Opt("file_name", {"XYZ"}),
        c \in Opt("start_date_nano", {0, 1})}
RawRows ==
    {Merge(Merge(Merge(a, b), c), d) :
        a \in Opt("sid", 1 .. MaxSid),
        b \in Opt("symbol", {"S", "None"}),
        c \in Opt("file_name", {"XYZ"}),
        d \in Opt("start_date_nano", {0, 1})}

IngestRaw ==
    \E sid \in 1 .. MaxSid, kwargs \in RawKwargs :
        insert_metadata(IntId(sid), kwargs)
ReadRaw == \E row \in RawRows : insert_metadata_readable(row)

NextRaw ==
    \/ IngestRaw
    \/ ReadRaw
    \/ EquityById

SpecRaw == InitLookup /\ [][NextRaw]_vars

\* SpecMap: equities ingested under symbols, and indexes of symbols, of
\* handles and of integers mapped to sids
MapKwargs == Opt("exchange", {"NYSE", "CME"})
MapIndexes ==
    {<<x>> : x \in {StrId("A"), StrId("B"), AssetObj(Equity([sid |-> MaxSid])),
                    OtherObj}}
        \cup {<<IntId(1), IntId(MaxSid)>>}

IngestSymbol ==
    \E x \in {"A", "B"}, kwargs \in MapKwargs : insert_metadata(StrId(x), kwargs)
MapIndex ==
    \E index \in MapIndexes, as_of_date \in {1} :
        map_identifier_index_to_sids(index, as_of_date)

NextMap ==
    \/ IngestSymbol
    \/ MapIndex

SpecMap == Init /\ [][NextMap]_vars

(***************************************************************************)
(* Properties.                                                             *)
(***************************************************************************)
SidsIn(table) == {table[i].sid : i \in 1 .. Len(table)}

\* C1 (as claimed): every sid with a row in equities or futures has exactly
\* one asset_router row, and that row carries the type of the table holding
\* the sid, whatever insert_metadata calls were made.
C1_OneRouterRowPerSid ==
    /\ \A sid \in SidsIn(equities) :
        /\ Cardinality(RowsOfSid(asset_router, sid)) = 1
        /\ \A i \in RowsOfSid(asset_router, sid) :
                asset_router[i].asset_type = "equity"
    /\ \A sid \in SidsIn(futures) :
        /\ Cardinality(RowsOfSid(asset_router, sid)) = 1
        /\ \A i \in RowsOfSid(asset_router, sid) :
                asset_router[i].asset_type = "future"

\* a committed snapshot in which typed rows and router rows go together
RouterMatches(snapshot) ==
    /\ SidsIn(snapshot.equities) =
            {snapshot.asset_router[i].sid : i \in
                {j \in 1 .. Len(snapshot.asset_router) :
                    snapshot.asset_router[j].asset_type = "equity"}}
    /\ SidsIn(snapshot.futures) =
            {snapshot.asset_router[i].sid : i \in
                {j \in 1 .. Len(snapshot.asset_router) :
                    snapshot.asset_router[j].asset_type = "future"}}

\* C2 (as claimed): in every state insert_metadata commits, for equities and
\* for futures alike, a sid has a typed row exactly when it has a router row
\* of that type.
C2_CommitsAreAtomic ==
    \A k \in 1 .. Len(commits) : RouterMatches(commits[k])

\* C3 (as claimed): asset_type_by_sid(s), called when s has been inserted,
\* returns a type s was inserted with, also when it had been called before
\* the insertion.
C3_TypeAfterInsertion ==
    (/\ result.op = "asset_type_by_sid"
     /\ RowsOfSid(asset_router, result.args.sid) # {})
    => \E i \in RowsOfSid(asset_router, result.args.sid) :
            result.out = Return(asset_router[i].asset_type)

\* C4 (as claimed): retrieve_asset(s), called when insert_metadata has stored
\* s (a typed row and its router row), returns a record whose sid is s,
\* whatever lookups were made on s before.
C4_RetrieveAfterInsertion ==
    (/\ result.op = "retrieve_asset"
     /\ RowsOfSid(asset_router, result.args.sid) # {}
     /\ result.args.sid \in SidsIn(equities) \cup SidsIn(futures))
    => /\ result.out.kind = "return"
       /\ result.out.value.sid = result.args.sid

\* the fields of a record that are checked against the entry ingested
EquityRecordFields ==
    {"symbol", "asset_name", "start_date", "end_date", "first_traded", "exchange"}
FutureRecordFields ==
    EquityRecordFields \cup
        {"root_symbol", "notice_date", "expiration_date", "contract_multiplier"}
TimestampFields ==
    {"start_date", "end_date", "first_traded", "notice_date", "expiration_date"}

IngestedOnce(sid) ==
    /\ Cardinality(RowsOfSid(equities, sid)) + Cardinality(RowsOfSid(futures, sid)) = 1
    /\ IntId(sid) \in DOMAIN metadata_cache

RoundTrips(record, entry, fields) ==
    \A f \in fields :
        IF f \in DOMAIN entry THEN record[f] = entry[f]
        ELSE f \in TimestampFields => record[f] = None

\* C5 (as claimed), for the calls that return a record: the record that
\* equity_for_id / futures_contract_for_id returns for a sid ingested once
\* has every ingested field at its ingested value, and every timestamp field
\* that was not ingested absent.
C5_RoundTrip ==
    (/\ result.op \in {"equity_for_id", "futures_contract_for_id"}
     /\ result.out.kind = "return"
     /\ IngestedOnce(result.args.sid))
    => RoundTrips(result.out.value, metadata_cache[IntId(result.args.sid)],
                  IF result.op = "equity_for_id" THEN EquityRecordFields
                  ELSE FutureRecordFields)

(***************************************************************************)
(* Properties of lookup_symbol_resolve_multiple.                           *)
(***************************************************************************)
Resolved == result.op = "lookup_symbol_resolve_multiple"
ResolvedAsOf == Resolved /\ result.args.as_of_date # None
ResolvedNoDate == Resolved /\ result.args.as_of_date = None

Bounded(i) == equities[i].start_date_nano # None /\ equities[i].end_date_nano # None

\* the validity window of a row, an absent bound being no bound
WindowContains(i, date) ==
    /\ equities[i].start_date_nano = None \/ equities[i].start_date_nano <= date
    /\ equities[i].end_date_nano = None \/ date <= equities[i].end_date_nano
WindowEndsBefore(i, date) ==
    equities[i].end_date_nano # None /\ equities[i].end_date_nano < date

ReturnsSid(out, sid) == out.kind = "return" /\ out.value.sid = sid

\* C6 (as claimed): with exactly two equities under the symbol, of disjoint
\* windows [d1,d2] and [d3,d4], d2 < d3, the resolver returns the first for
\* every as_of_date in [d1,d2] and strictly between d2 and d3, and the second
\* for every as_of_date in [d3,d4].
C6_DisjointWindows ==
    ResolvedAsOf =>
        \A i, j \in WithSymbol(result.args.symbol) :
            LET date == result.args.as_of_date
                d1 == equities[i].start_date_nano
                d2 == equities[i].end_date_nano
                d3 == equities[j].start_date_nano
                d4 == equities[j].end_date_nano
            IN  (/\ WithSymbol(result.args.symbol) = {i, j}
                 /\ equities[i].sid # equities[j].sid
                 /\ Bounded(i) /\ Bounded(j)
                 /\ d1 <= d2 /\ d2 < d3 /\ d3 <= d4)
                => /\ (d1 <= date /\ date <= d2) => ReturnsSid(result.out, equities[i].sid)
                   /\ (d3 <= date /\ date <= d4) => ReturnsSid(result.out, equities[j].sid)
                   /\ (d2 < date /\ date < d3) => ReturnsSid(result.out, equities[i].sid)

\* the rows whose (bounded) window contains the date
Trading(symbol, date) ==
    {i \in WithSymbol(symbol) : Bounded(i) /\ WindowContains(i, date)}

\* latest start_date, ties broken by latest end_date
LatestStart(rows) ==
    {i \in rows : \A j \in rows :
        \/ equities[j].start_date_nano < equities[i].start_date_nano
        \/ /\ equities[j].start_date_nano = equities[i].start_date_nano
           /\ equities[j].end_date_nano <= equities[i].end_date_nano}

\* C7 (as claimed): when the windows of two or more equities under the symbol
\* contain as_of_date, the resolver does not fail and returns the one with the
\* latest start_date, ties broken by the latest end_date.
C7_OverlappingWindows ==
    (/\ ResolvedAsOf
     /\ Cardinality({equities[i].sid : i \in
            Trading(result.args.symbol, result.args.as_of_date)}) >= 2)
    => \E i \in LatestStart(Trading(result.args.symbol, result.args.as_of_date)) :
            ReturnsSid(result.out, equities[i].sid)

NoWindowAt(symbol, date) ==
    \A i \in WithSymbol(symbol) :
        ~WindowContains(i, date) /\ ~WindowEndsBefore(i, date)

\* C8: given an as_of_date, the resolver raises SymbolNotFound when no equity
\* under the symbol has a window that contains as_of_date or ends before it
\* (the symbol is unknown, or every candidate starts after as_of_date).
C8_NotFound ==
    (ResolvedAsOf /\ NoWindowAt(result.args.symbol, result.args.as_of_date))
    => result.out = Raise("SymbolNotFound")

\* C8's case: a candidate under the symbol exists and starts after as_of_date
C8_Witness ==
    /\ ResolvedAsOf
    /\ WithSymbol(result.args.symbol) # {}
    /\ NoWindowAt(result.args.symbol, result.args.as_of_date)
    /\ result.out = Raise("SymbolNotFound")

\* C9 (as claimed): without as_of_date, the resolver raises
\* MultipleSymbolsFound when more than one equity carries the symbol and
\* returns the equity when exactly one does.
C9_NoDateAmbiguity ==
    ResolvedNoDate =>
        LET sids == {equities[i].sid : i \in WithSymbol(result.args.symbol)}
        IN  /\ Cardinality(sids) > 1 => result.out = Raise("MultipleSymbolsFound")
            /\ Cardinality(WithSymbol(result.args.symbol)) = 1 =>
                    \E sid \in sids : ReturnsSid(result.out, sid)

\* C10 (as claimed): without as_of_date, the resolver raises SymbolNotFound,
\* and no other error, when no equity carries the symbol.
C10_NoDateNotFound ==
    (ResolvedNoDate /\ WithSymbol(result.args.symbol) = {})
    => result.out = Raise("SymbolNotFound")

(***************************************************************************)
(* Properties of the in-memory resolver and of lookup_symbol.              *)
(***************************************************************************)
\* an outcome of the storage-backed resolver and one of the in-memory
\* resolver that select the same sid, or both report unresolved
Agree(found, out) ==
    IF "sid" \in DOMAIN found
    THEN /\ out.kind = "return"
         /\ out.value.info.kind = "return"
         /\ out.value.info.value.sid = found.sid
    ELSE /\ found = Raise("SymbolNotFound")
         /\ out = Return(InfoMatch(ReturnNone, FALSE))

\* C11 (as claimed): for the equities stored under a symbol, of distinct
\* sids and each with a window start_date <= end_date, and any as_of_date at
\* midnight, the
\* in-memory resolver over their records and the storage-backed resolver
\* select the same sid or both report unresolved.
C11_ResolversAgree ==
    (/\ result.op = "_lookup_symbol_in_infos"
     /\ result.args.infos = Infos(InfoSymbol)
     /\ result.args.as_of_date = normalize_date(result.args.as_of_date)
     /\ \A i, j \in WithSymbol(InfoSymbol) :
            equities[i].sid = equities[j].sid => i = j
     /\ \A i \in WithSymbol(InfoSymbol) :
            Bounded(i) /\ equities[i].start_date_nano <= equities[i].end_date_nano)
    => \A found \in ResolveAsOf(InfoSymbol, result.args.as_of_date) :
            Agree(found, result.out)

LookedUpFuzzy == result.op = "lookup_symbol" /\ result.args.fuzzy # ""

\* the rows trading at the date under the first fuzzy symbol that has any
FirstTrading(fuzzy_symbols, date) ==
    LET ks == {k \in 1 .. Len(fuzzy_symbols) : Trading(fuzzy_symbols[k], date) # {}}
    IN  IF ks = {} THEN {} ELSE Trading(fuzzy_symbols[Min(ks)], date)

\* C12 (as claimed): lookup_symbol(symbol, as_of_date, fuzzy=c), with
\* as_of_date at midnight, returns an equity trading at as_of_date under the
\* first of symbol and its variants (c inserted at position len-1 down to 1)
\* that has one among the ingested equities.
C12_FuzzyFindsVariant ==
    LET date == result.args.as_of_date
        first == FirstTrading(
                    FuzzySymbols(upper(result.args.symbol), result.args.fuzzy),
                    date)
    IN  (LookedUpFuzzy /\ date = normalize_date(date) /\ first # {})
        => \E i \in first : ReturnsSid(result.out, equities[i].sid)

\* the key lookup_symbol files the last call under
FuzzyKey ==
    <<upper(result.args.symbol), result.args.fuzzy,
      normalize_date(result.args.as_of_date)>>

FuzzyRecorded ==
    LookedUpFuzzy =>
        FuzzyKey \in DOMAIN fuzzy_match /\ fuzzy_match[FuzzyKey] = result.out

FuzzyKept ==
    \A key \in DOMAIN fuzzy_match :
        key \in DOMAIN fuzzy_match' /\ fuzzy_match'[key] = fuzzy_match[key]

\* C13: a fuzzy lookup_symbol returns what fuzzy_match holds for its
\* (symbol, fuzzy, as_of_date) triple, the unresolved outcome None included,
\* and no call (ingestion, clear_metadata, another lookup) removes or changes
\* an entry of fuzzy_match: every later call with the triple returns the
\* first result.
C13_FuzzyMatchPermanent == [](FuzzyRecorded) /\ [][FuzzyKept]_vars

\* C13's case: a fuzzy lookup answered after an ingestion and a
\* clear_metadata, with several triples on record
C13_Witness ==
    /\ LookedUpFuzzy
    /\ FuzzyKey \in DOMAIN fuzzy_match
    /\ fuzzy_match[FuzzyKey] = result.out
    /\ Cardinality(DOMAIN fuzzy_match) >= 2
    /\ equities # <<>>
    /\ metadata_cache = EmptyDict

(***************************************************************************)
(* Properties of lookup_future_chain.                                      *)
(***************************************************************************)
LookedUpChain == result.op = "lookup_future_chain"

\* the stored futures the chain is claimed to consist of
ChainOf(args) ==
    {i \in 1 .. Len(futures) :
        /\ futures[i].root_symbol = args.root_symbol
        /\ futures[i].expiration_date_nano # None
        /\ futures[i].expiration_date_nano >= args.as_of_date
        /\ futures[i].start_date_nano # None
        /\ futures[i].start_date_nano <= args.knowledge_date}

\* C14 (as claimed): when no sid is stored twice, lookup_future_chain returns
\* a list of records, one for each stored future with the root_symbol whose
\* expiration_date >= as_of_date and start_date <= knowledge_date and no
\* other, in ascending order of the futures' expiration_date.
C14_ChainContents ==
    (/\ LookedUpChain
     /\ \A i, j \in 1 .. Len(futures) : futures[i].sid = futures[j].sid => i = j)
    => /\ result.out.kind = "return"
       /\ Len(result.out.value) = Cardinality(ChainOf(result.args))
       /\ \A k \in DOMAIN result.out.value :
            /\ result.out.value[k].kind = "return"
            /\ \E i \in ChainOf(result.args) :
                    result.out.value[k].value.sid = futures[i].sid
       /\ \A i \in ChainOf(result.args) : \E k \in DOMAIN result.out.value :
            ReturnsSid(result.out.value[k], futures[i].sid)
       /\ \A k, l \in DOMAIN result.out.value : \A i, j \in ChainOf(result.args) :
            (/\ k < l
             /\ ReturnsSid(result.out.value[k], futures[i].sid)
             /\ ReturnsSid(result.out.value[l], futures[j].sid))
            => futures[i].expiration_date_nano <= futures[j].expiration_date_nano

\* C15 (as claimed): lookup_future_chain raises RootSymbolNotFound when no
\* stored future carries the root_symbol.
C15_UnknownRoot ==
    (/\ LookedUpChain
     /\ \A i \in 1 .. Len(futures) : futures[i].root_symbol # result.args.root_symbol)
    => result.out = Raise("RootSymbolNotFound")

(***************************************************************************)
(* Properties of the sids insert_metadata assigns.                         *)
(***************************************************************************)
Inserted == result.op = "insert_metadata"

\* the typed rows and router rows written for a sid
RowsWritten(sid) ==
    /\ RowsOfSid(asset_router, sid) # {}
    /\ RowsOfSid(equities, sid) \cup RowsOfSid(futures, sid) # {}

\* the identifiers of a fresh AssetFinder got 0, 1, 2, ... and the last call
\* wrote its rows under the sid of its identifier
NumberedFromZero ==
    (allow_sid_assignment /\ Inserted) =>
        /\ {metadata_cache[id]["sid"] : id \in DOMAIN metadata_cache}
                = 0 .. Cardinality(DOMAIN metadata_cache) - 1
        /\ result.out = ReturnNone
        /\ result.args.sid = metadata_cache[result.args.identifier]["sid"]
        /\ RowsWritten(result.args.sid)

\* an identifier ingested for the first time gets the number of identifiers
\* ingested before it
NumberedInOrder ==
    \A id \in DOMAIN metadata_cache' \ DOMAIN metadata_cache :
        metadata_cache'[id]["sid"] = Cardinality(DOMAIN metadata_cache)

\* with assignment disabled the call raises and nothing is stored
RefusedWhenDisabled ==
    (~allow_sid_assignment /\ Inserted) =>
        /\ result.out = RaiseFor("SidAssignmentError", result.args.identifier)
        /\ metadata_cache = EmptyDict
        /\ equities = <<>> /\ futures = <<>> /\ asset_router = <<>>

\* C16: into a fresh AssetFinder, entries without a sid ingested under symbols
\* get sids 0, 1, 2, ... in ingestion order when allow_sid_assignment is
\* enabled; when it is disabled, insert_metadata raises SidAssignmentError
\* naming the identifier and stores nothing.
C16_SidAssignment ==
    /\ [](NumberedFromZero /\ RefusedWhenDisabled)
    /\ [][NumberedInOrder]_vars

\* C16's case: two symbols ingested, numbered 0 and 1
C16_Witness ==
    /\ allow_sid_assignment
    /\ Inserted
    /\ Cardinality(DOMAIN metadata_cache) = 2
    /\ result.args.sid = 1
    /\ metadata_cache[result.args.identifier]["sid"] = 1
    /\ RowsWritten(0) /\ RowsWritten(1)

\* C17 (as claimed): after any sequence of insert_metadata calls under
\* integer and string identifiers, interleaved with clear_metadata, no two
\* distinct identifiers are stored under the same sid.
C17_SidsUnique ==
    \A id1, id2 \in DOMAIN metadata_cache :
        metadata_cache[id1]["sid"] = metadata_cache[id2]["sid"] => id1 = id2

(***************************************************************************)
(* Properties of lookup_generic.                                           *)
(***************************************************************************)
\* a match that is the conversion of the object
Converts(obj, match) ==
    /\ match.kind = "return"
    /\ IF obj.kind = "asset" THEN match.value = obj.val
       ELSE IF obj.kind = "int" THEN match.value.sid = obj.val
       ELSE match.value.symbol = obj.val

\* the positions of objs a selection takes, in order
Taken(objs, side, taken) ==
    SelectSeq([k \in DOMAIN objs |-> k], LAMBDA k : side[k] = taken)

\* C18 (as claimed): lookup_generic over an iterable of handles, integer sids
\* and symbols, given an as_of_date, raises for no element, an unknown integer
\* sid included: it returns (matches, missing), every element being in exactly
\* one of the two, its conversion in matches or itself in missing, both in
\* input order.
C18_BatchPartitions ==
    (/\ result.op = "lookup_generic"
     /\ ~result.args.scalar
     /\ result.args.as_of_date # None)
    => /\ result.out.kind = "return"
       /\ \E side \in [DOMAIN result.args.objs -> BOOLEAN] :
            LET objs == result.args.objs
                hit == Taken(objs, side, TRUE)
                miss == Taken(objs, side, FALSE)
            IN  /\ Len(result.out.value.matches) = Len(hit)
                /\ Len(result.out.value.missing) = Len(miss)
                /\ \A j \in DOMAIN hit :
                        Converts(objs[hit[j]], result.out.value.matches[j])
                /\ \A j \in DOMAIN miss :
                        result.out.value.missing[j] = objs[miss[j]]

(***************************************************************************)
(* Properties of the filter and the dispatch of insert_metadata.           *)
(***************************************************************************)
\* a submitted field that is unknown, or whose value is None, '' or NaN
Unacceptable(kwargs, f) ==
    \/ f \notin ASSET_FIELDS
    \/ IF f \in TextFields THEN kwargs[f] = "" ELSE kwargs[f] \in {None, NaN}

\* the field is also submitted, with a value, under its compatibility name
SubmittedAs(kwargs, f, alias) ==
    alias \in DOMAIN kwargs /\ ~Unacceptable(kwargs, alias)
Aliased(kwargs, f) ==
    \/ f = "symbol" /\ SubmittedAs(kwargs, f, "file_name")
    \/ f = "start_date" /\ SubmittedAs(kwargs, f, "start_date_nano")
    \/ f = "end_date" /\ SubmittedAs(kwargs, f, "end_date_nano")

\* a call of insert_metadata on an identifier that has an entry leaves the
\* fields submitted with an unacceptable value as the entry had them
KeepsKnownValues ==
    (result'.op = "insert_metadata"
        /\ result'.args.identifier \in DOMAIN metadata_cache)
    => LET id == result'.args.identifier
           kwargs == result'.args.kwargs
       IN  /\ id \in DOMAIN metadata_cache'
           /\ \A f \in DOMAIN kwargs :
                (Unacceptable(kwargs, f) /\ ~Aliased(kwargs, f))
                => IF f \in DOMAIN metadata_cache[id]
                   THEN /\ f \in DOMAIN metadata_cache'[id]
                        /\ metadata_cache'[id][f] = metadata_cache[id][f]
                   ELSE f \notin ASSET_FIELDS
                            => f \notin DOMAIN metadata_cache'[id]

\* C19: when an identifier is re-ingested, a field submitted with the value
\* None, '' or NaN keeps the value the metadata cache entry had for it, and a
\* field outside ASSET_FIELDS does not enter the entry.
C19_RejectedValuesKeepEntry == [][KeepsKnownValues]_vars

\* C19's case: an identifier ingested twice, the last time with a start_date
\* that is not accepted while its entry holds one
C19_Witness ==
    /\ Inserted
    /\ result.out = ReturnNone
    /\ "start_date" \in DOMAIN result.args.kwargs
    /\ Unacceptable(result.args.kwargs, "start_date")
    /\ "comment" \in DOMAIN result.args.kwargs
    /\ result.args.identifier \in DOMAIN metadata_cache
    /\ "start_date" \in DOMAIN metadata_cache[result.args.identifier]
    /\ metadata_cache[result.args.identifier]["start_date"] = 1
    /\ Cardinality(RowsOfSid(equities, result.args.sid)) = 2

\* the asset_type a call submits, '' being no asset_type
Submitted(kwargs) == Get(kwargs, "asset_type", "")

\* a call stores an entry without asset_type as an equity and one of
\* asset_type 'future' as a future, each with its router row, and writes
\* nothing for any other asset_type but 'equity'
Dispatches ==
    result'.op = "insert_metadata"
    => LET asset_type == Submitted(result'.args.kwargs)
           sid == result'.args.sid
       IN  /\ asset_type = "" =>
                /\ result'.out = ReturnNone
                /\ Len(equities') = Len(equities) + 1
                /\ SubSeq(equities', 1, Len(equities)) = equities
                /\ equities'[Len(equities')].sid = sid
                /\ asset_router' = Append(asset_router, RouterRow(sid, "equity"))
                /\ futures' = futures
           /\ asset_type = "future" =>
                /\ result'.out = ReturnNone
                /\ Len(futures') = Len(futures) + 1
                /\ SubSeq(futures', 1, Len(futures)) = futures
                /\ futures'[Len(futures')].sid = sid
                /\ asset_router' = Append(asset_router, RouterRow(sid, "future"))
                /\ equities' = equities
           /\ lower(asset_type) \notin {"", "equity", "future"} =>
                /\ result'.out = Raise("InvalidAssetType")
                /\ equities' = equities
                /\ futures' = futures
                /\ asset_router' = asset_router

\* C20: insert_metadata stores an entry with no asset_type as an equity (an
\* equities row and an 'equity' router row) and one with asset_type 'future'
\* as a future (a futures row and a 'future' router row); any other
\* asset_type raises InvalidAssetType and writes no typed row and no router
\* row.
C20_TypeDispatch == [][Dispatches]_vars

\* C20's case: a call with an asset_type that is none of the two was refused
\* after a future was stored
C20_Witness ==
    /\ Inserted
    /\ Submitted(result.args.kwargs) = "bond"
    /\ result.out = Raise("InvalidAssetType")
    /\ Len(futures) = 1
    /\ asset_router = <<RouterRow(futures[1].sid, "future")>>
    /\ equities = <<>>

(***************************************************************************)
(* Properties of the ingestion of raw entries.                             *)
(***************************************************************************)
\* the raw entry of the last ingestion and the identifier it was filed under
RawEntry ==
    IF result.op = "insert_metadata" THEN result.args.kwargs ELSE result.args.row
RawIdentifier ==
    IF result.op = "insert_metadata" THEN result.args.identifier
    ELSE IF "sid" \in DOMAIN result.args.row THEN IntId(result.args.row["sid"])
    ELSE StrId(result.args.row["symbol"])
IngestedRaw ==
    /\ result.op \in {"insert_metadata", "_insert_metadata_readable"}
    /\ result.out = ReturnNone

\* C21 (as claimed): a raw entry with start_date_nano=0, ingested through
\* insert_metadata or from a readable, is filed with start_date at the epoch,
\* and the equity looked up by its sid has start_date at the epoch, not
\* absent; a raw entry with file_name='XYZ' and no symbol is filed with
\* symbol 'XYZ'.
C21_RawEntryProvided ==
    /\ (IngestedRaw /\ Get(RawEntry, "start_date_nano", None) = 0)
        => Get(metadata_cache[RawIdentifier], "start_date", None) = 0
    /\ (IngestedRaw /\ Get(RawEntry, "file_name", "") = "XYZ"
            /\ "symbol" \notin DOMAIN RawEntry)
        => Get(metadata_cache[RawIdentifier], "symbol", "") = "XYZ"
    /\ (/\ result.op = "equity_for_id"
        /\ result.out.kind = "return"
        /\ IngestedOnce(result.args.sid)
        /\ Get(metadata_cache[IntId(result.args.sid)], "start_date", None) = 0)
        => result.out.value.start_date = 0

(***************************************************************************)
(* Properties of map_identifier_index_to_sids.                             *)
(***************************************************************************)
\* a call on an index of symbols or handles, with sid assignment allowed,
\* returns a list of sids of stored instruments and, when the identifier
\* has an entry already, adds no row; a call on an index whose first element
\* is no handle, integer or string raises MapAssetIdentifierIndexError
MapsIndex ==
    result'.op = "map_identifier_index_to_sids"
    => LET first == result'.args.index[1]
       IN  /\ first.kind = "other"
                => result'.out = Raise("MapAssetIdentifierIndexError")
           /\ (first.kind \in {"str", "asset"} /\ allow_sid_assignment)
                => /\ result'.out.kind = "return"
                   /\ \A k \in DOMAIN result'.out.value :
                        result'.out.value[k] \in SidsIn(equities') \cup SidsIn(futures')
                   /\ ConsumeCall(first).identifier \in DOMAIN metadata_cache
                        => /\ equities' = equities
                           /\ futures' = futures
                           /\ asset_router' = asset_router

\* C22 (as claimed): map_identifier_index_to_sids over an index of symbols or
\* handles does not fail: it returns sids of stored instruments and adds no
\* row to the store for an identifier that is stored already; an index whose
\* first element is not a handle, an integer or a string raises
\* MapAssetIdentifierIndexError.
C22_MapsToSids == [][MapsIndex]_vars

(***************************************************************************)
(* Properties of the candidate selection of the two resolvers.             *)
(***************************************************************************)
\* C23 (as claimed): given an as_of_date at midnight, the exact-match step of
\* lookup_symbol_resolve_multiple selects exactly the equities under the
\* symbol whose window contains as_of_date, both ends inclusive, an absent
\* start_date or end_date leaving the window unbounded on that side.
C23_ExactMatch ==
    (ResolvedAsOf
        /\ result.args.as_of_date = normalize_date(result.args.as_of_date))
    => ExactCandidates(result.args.symbol, result.args.as_of_date)
        = {i \in WithSymbol(result.args.symbol) :
                WindowContains(i, result.args.as_of_date)}

\* the rows the fallback is claimed to choose from, and the one it is
\* claimed to return
StartedBy(symbol, date) ==
    {i \in WithSymbol(symbol) : equities[i].start_date_nano <= date}
GreatestEnd(rows) ==
    {i \in rows : \A j \in rows :
        \/ equities[j].end_date_nano < equities[i].end_date_nano
        \/ /\ equities[j].end_date_nano = equities[i].end_date_nano
           /\ equities[j].start_date_nano <= equities[i].start_date_nano}

\* C24 (as claimed): given an as_of_date at midnight that no window of the
\* equities under the symbol (of distinct sids, each with a start date and a
\* later or equal end date) contains, the resolver returns, among those with start_date <=
\* as_of_date, the one with the greatest end_date, ties on end_date broken
\* by the greatest start_date.
C24_FallbackDeterministic ==
    LET symbol == result.args.symbol
        date == result.args.as_of_date
    IN  (/\ ResolvedAsOf
         /\ date = normalize_date(date)
         /\ \A i \in WithSymbol(symbol) :
                /\ Bounded(i)
                /\ equities[i].start_date_nano <= equities[i].end_date_nano
                /\ ~WindowContains(i, date)
         /\ \A i, j \in WithSymbol(symbol) :
                equities[i].sid = equities[j].sid => i = j
         /\ StartedBy(symbol, date) # {})
        => \E i \in GreatestEnd(StartedBy(symbol, date)) :
                ReturnsSid(result.out, equities[i].sid)

(***************************************************************************)
(* Properties of a failed ingestion.                                       *)
(***************************************************************************)
\* a call of insert_metadata that raises leaves the tables and the
\* metadata_cache as they were
FailedLeavesState ==
    (result'.op = "insert_metadata" /\ result'.out.kind = "raise")
    => /\ equities' = equities
       /\ futures' = futures
       /\ asset_router' = asset_router
       /\ metadata_cache' = metadata_cache

\* C25 (as claimed): an ingestion that fails writes no typed row and no
\* router row, and the metadata_cache entry of the identifier, if it had
\* one, keeps the fields and values it had before the call.
C25_FailedIngestionLeavesState == [][FailedLeavesState]_vars

(***************************************************************************)
(* Properties of _lookup_symbol_in_infos.                                  *)
(***************************************************************************)
SearchedInfos == result.op = "_lookup_symbol_in_infos"

\* the validity window of a record, an absent bound being no bound
InfoWindowContains(info, date) ==
    /\ info.start_date = None \/ info.start_date <= date
    /\ info.end_date = None \/ date <= info.end_date
InfoEndsBefore(info, date) == info.end_date # None /\ info.end_date < date

\* C26 (as claimed): _lookup_symbol_in_infos returns (asset, True) only when
\* the window of the asset contains as_of_date, (asset, False) only when
\* the asset ends strictly before as_of_date and no window contains
\* as_of_date, and (None, False) exactly when no window contains as_of_date
\* and no entry ends before it.
C26_InfosMatch ==
    SearchedInfos
    => LET infos == result.args.infos
           date == result.args.as_of_date
           out == result.out
           NoneTrades == \A k \in 1 .. Len(infos) :
                            ~InfoWindowContains(infos[k], date)
           NoneEnded == \A k \in 1 .. Len(infos) :
                            ~InfoEndsBefore(infos[k], date)
           Found == out.kind = "return" /\ out.value.info # ReturnNone
       IN  /\ (Found /\ out.value.date_match)
                => InfoWindowContains(out.value.info.value, date)
           /\ (Found /\ ~out.value.date_match)
                => InfoEndsBefore(out.value.info.value, date) /\ NoneTrades
           /\ (NoneTrades /\ NoneEnded)
                <=> out = Return(InfoMatch(ReturnNone, FALSE))

====
